---- MODULE Spec2Model ----
(***************************************************************************)
(* Model of the connection registry of tradalia/system-adapter             *)
(* (pkg/business/connection.go): the process-wide map userConnections,     *)
(* guarded by one sync.RWMutex, and the operations Connect, Disconnect,    *)
(* GetConnections, GetConnectionsToRefresh and the query dispatchers.      *)
(*                                                                         *)
(* Request handlers run as concurrent threads.  A handler is cut into      *)
(* steps at the points where it can block: acquiring the lock, the         *)
(* adapter's connect call, the adapter's disconnect call, the delegated    *)
(* adapter query.  Everything a handler does between two such points is    *)
(* one action.                                                             *)
(***************************************************************************)
EXTENDS Integers, Sequences, FiniteSets, TLC

\* ------------------------------------------------------------------ bounds
NProcs == 2          \* concurrent request-handling threads

Procs    == 1..NProcs
Users    == {"alice", "bob"}
Codes    == {"main"}
Pairs    == Users \X Codes
\* adapters is the catalog built at startup; "nosys" is a code it does not hold
Adapters    == {"broker-x", "broker-y"}
SystemCodes == Adapters \cup {"nosys"}
\* identities of the ConnectionContext objects built for one pair: the one
\* its map entry refers to and those that other threads still hold in a local
CtxIds   == 1..NProcs

\* adapter.ConnectionContext status values
Disconnected == "Disconnected"
Connecting   == "Connecting"
Connected    == "Connected"
StatusError  == "Error"
\* the zero value of ConnectionStatus / ConnectionAction (field left unset)
Unset        == "unset"
ActionNone   == "None"
ActionOpenUrl == "OpenUrl"

QueryOps == {"GetRootSymbols", "GetRootSymbol", "GetInstruments", "GetPriceBars", "GetAccounts"}

VARIABLES
  lock,        \* userConnections.RWMutex: 0, or the thread holding it for writing
  users,       \* keys of userConnections.m
  contexts,    \* uc.contexts of every user: [Pairs -> CtxIds or 0], 0 = no key
  ctxs,        \* the ConnectionContext objects, by pair and identity
  pc,          \* position of each thread
  op,          \* the call each thread is executing
  lctx,        \* the ctx local variable of each thread: an object of the
               \* pair its call looked up (0 = nil)
  res,         \* the value each thread is about to return
  ev,          \* what the write-lock holder's call has done so far
  pre,         \* the registry as the write-lock holder found it
  wasRemoved   \* pairs whose last registry change was a removal by Disconnect

vars == <<lock, users, contexts, ctxs, pc, op, lctx, res, ev, pre,
          wasRemoved>>

histVars == <<wasRemoved>>

\* ------------------------------------------------------------------ values
NoOp  == [name |-> "", user |-> "", behalf |-> "", code |-> "", race |-> FALSE,
          pending |-> FALSE]
NoRes == [err |-> "", status |-> "", action |-> "", message |-> <<>>, val |-> {}]
NoPre == [users |-> {}, contexts |-> [pr \in Pairs |-> 0], st |-> "", sys |-> "", removed |-> FALSE]

Event(e, st) == [e |-> e, st |-> st]

ConnectionResult(status, action, message) ==
  [err |-> "nil", status |-> status, action |-> action, message |-> message, val |-> {}]

NotFoundError(what) ==
  [err |-> "NotFound", status |-> "", action |-> "", message |-> what, val |-> {}]

ServerError(what) ==
  [err |-> "ServerError", status |-> "", action |-> "", message |-> what, val |-> {}]

Success == [err |-> "nil", status |-> "", action |-> "", message |-> <<>>, val |-> {}]

\* status of the context stored for a pair, "absent" when there is no key
StatusOf(cm, cs, pr) == IF cm[pr] = 0 THEN "absent" ELSE cs[pr][cm[pr]].status

Has(e) == \E i \in 1..Len(ev) : ev[i].e = e

\* a slot of ctxs that holds no object
FreeCtx == [user |-> "", code |-> "", sys |-> "", status |-> "free"]

\* LookupUser that takes the acting username in every lookup
LookupUserUsername(o) == o.user

\* the identity whose map a call consults: c.Session.OnBehalfOf in
\* getConnectionContext, c.Session.Username everywhere else
LookupUser(o) == IF o.name = "getConnectionContext" THEN o.behalf ELSE o.user

PairOf(o) == <<LookupUser(o), o.code>>

\* an object is kept while a map entry or a thread's local refers to it
Referenced(cm, lc, o, pr, i) ==
  \/ cm[pr] = i
  \/ \E p \in Procs : lc[p] = i /\ PairOf(o[p]) = pr

Collect(cs, cm, lc, o) ==
  [pr \in Pairs |-> [i \in CtxIds |->
     IF Referenced(cm, lc, o, pr, i) THEN cs[pr][i] ELSE FreeCtx]]

\* a thread's local refers to object i of pair pr
Held(pr, i) == \E p \in Procs : lctx[p] = i /\ PairOf(op[p]) = pr

\* the identity of the object that the caller is about to store for pair pr:
\* one that no thread holds (the object the entry referred to so far is
\* dropped by the store, unless a thread holds it)
NewId(pr) == CHOOSE i \in CtxIds : ~Held(pr, i) /\ \A j \in CtxIds : j < i => Held(pr, j)

\* ------------------------------------------------------ adapter package
\* adapter.NewConnectionContext: a context bound to the adapter of sys, not
\* yet connected
NewConnectionContext(user, code, sys) ==
  [user |-> user, code |-> code, sys |-> sys, status |-> Disconnected]

\* what the adapter's connect primitive can return
ConnectOutcomes == {"Connected", "OpenUrl", "ProxyUrl", "error"}

\* the status ctx.Connect() leaves in the context
StatusAfterConnect(out) ==
  CASE out = "Connected" -> Connected
    [] out = "OpenUrl"   -> Connecting
    [] out = "ProxyUrl"  -> Connecting
    [] OTHER             -> StatusError

\* the status ctx.Disconnect() leaves in the context
StatusAfterDisconnect(old, ok) == IF ok THEN Disconnected ELSE old

\* status changes the adapter makes on its own, outside any registry call
AdapterTransitions ==
  { <<Connecting, Connected>>, <<Connecting, StatusError>>, <<Connected, Disconnected>> }

GetAdapterAuthUrl(sys) == <<"authurl", sys>>

IsConnected(st)    == st = Connected
IsConnecting(st)   == st = Connecting
IsDisconnected(st) == st = Disconnected
IsLive(st)         == IsConnected(st) \/ IsConnecting(st)

\* --------------------------------------------------------------- Connect
\* ShortCircuit without the IsConnecting branch
ShortCircuitConnectedOnly(st) ==
  IF IsConnected(st)
    THEN ConnectionResult(Connected, Unset, <<"Already connected">>)
    ELSE NoRes

\* ShortCircuit that returns for every context found, whatever its status
ShortCircuitAnyFound(st) ==
  IF IsConnected(st)
    THEN ConnectionResult(Connected, Unset, <<"Already connected">>)
    ELSE IF st # "absent"
      THEN ConnectionResult(Connecting, Unset, <<"Still connecting">>)
      ELSE NoRes

\* lines 126-141: the result Connect returns at once for the stored status
\* st, NoRes when it goes on
ShortCircuit(st) ==
  IF IsConnected(st)
    THEN ConnectionResult(Connected, Unset, <<"Already connected">>)
    ELSE IF IsConnecting(st)
      THEN ConnectionResult(Connecting, Unset, <<"Still connecting">>)
      ELSE NoRes

\* AdapterKnown without the catalog lookup
AdapterAlwaysKnown(sys) == TRUE

\* line 143: ad,ok := adapters[cs.SystemCode]
AdapterKnown(sys) == sys \in Adapters

\* MapOutcome that answers a proxy login with the adapter's own URL
MapOutcomeAdapterUrl(out, user, code, sys) ==
  CASE out = "Connected" -> ConnectionResult(Connected, ActionNone, <<>>)
    [] out = "OpenUrl"   -> ConnectionResult(Connecting, ActionOpenUrl, GetAdapterAuthUrl(sys))
    [] out = "ProxyUrl"  -> ConnectionResult(Connecting, ActionOpenUrl, GetAdapterAuthUrl(sys))
    [] OTHER             -> ConnectionResult(StatusError, ActionNone, <<>>)

\* lines 180-194: the result for an adapter outcome, from res as initialised
\* at lines 162-165
MapOutcome(out, user, code, sys) ==
  CASE out = "Connected" -> ConnectionResult(Connected, ActionNone, <<>>)
    [] out = "OpenUrl"   -> ConnectionResult(Connecting, ActionOpenUrl, GetAdapterAuthUrl(sys))
    [] out = "ProxyUrl"  -> ConnectionResult(Connecting, ActionOpenUrl,
                              <<"https://tradalia-server:8449/api/system/v1/weblogin/",
                                user, "/", code, "/login">>)
    [] OTHER             -> ConnectionResult(StatusError, ActionNone, <<>>)

\* lines 174-178: what Connect returns when the publish fails
ConnectPublishFailure == ConnectionResult(Unset, Unset, <<"publish error">>)

\* ConnectAdapterFailure returned as an error instead of a result
ConnectAdapterFailureRaised ==
  [err |-> "ServerError", status |-> "", action |-> "", message |-> <<"connect error">>, val |-> {}]

\* lines 168-171: what Connect returns when ctx.Connect() fails
ConnectAdapterFailure == ConnectionResult(StatusError, ActionNone, <<"connect error">>)

\* lines 150-155: what Connect returns when the context cannot be built
ConnectNewFailure == ConnectionResult(StatusError, Unset, <<"context error">>)

\* lines 331-336: the change message built from a context
ChangeMessage(ctx) == Event("publish", ctx.status)

Snapshot(pr, s) ==
  [users |-> users, contexts |-> contexts, st |-> StatusOf(contexts, ctxs, pr),
   sys |-> s, removed |-> pr \in wasRemoved]

\* a thread is inside ctx.Connect() for pair pr
PendingConnect(pr) ==
  \E q \in Procs : pc[q] = "c_adapter" /\ op[q].user = pr[1] /\ op[q].code = pr[2]

\* a thread calls Connect and reaches userConnections.Lock(); race records
\* whether the pair had an entry when the call was issued
ConnectCall(p) ==
  /\ pc[p] = "idle"
  /\ \E u \in Users, c \in Codes :
       op' = [op EXCEPT ![p] = [name |-> "Connect", user |-> u, behalf |-> u, code |-> c,
                                race |-> contexts[<<u, c>>] = 0, pending |-> FALSE]]
  /\ pc' = [pc EXCEPT ![p] = "c_lock"]
  /\ UNCHANGED <<lock, users, contexts, ctxs, lctx, res, ev, pre, histVars>>

\* a client repeats Connect for a pair while a thread is inside ctx.Connect()
\* for it: the same call, marked as a retry
ConnectRetry(p) ==
  /\ pc[p] = "idle"
  /\ \E u \in Users, c \in Codes :
       /\ PendingConnect(<<u, c>>)
       /\ op' = [op EXCEPT ![p] = [name |-> "Connect", user |-> u, behalf |-> u, code |-> c,
                                   race |-> FALSE, pending |-> TRUE]]
  /\ pc' = [pc EXCEPT ![p] = "c_lock"]
  /\ UNCHANGED <<lock, users, contexts, ctxs, lctx, res, ev, pre, histVars>>

\* lines 113-167, for the system code s of the ConnectionSpec: takes the
\* lock, finds or creates the user's entry, returns at once for a live
\* context or an unknown system, else builds and stores the context and
\* enters ctx.Connect()
ConnectBody(p, s) ==
  LET u  == op[p].user
      c  == op[p].code
      pr == <<u, c>>
      st == StatusOf(contexts, ctxs, pr)
      id == NewId(pr)
  IN
  /\ pre' = Snapshot(pr, s)
  /\ users' = users \cup {u}
  /\ IF ShortCircuit(st) # NoRes
       THEN /\ res' = [res EXCEPT ![p] = ShortCircuit(st)]
            /\ pc' = [pc EXCEPT ![p] = "c_ret"]
            /\ ev' = <<>>
            /\ UNCHANGED <<contexts, ctxs, lctx, histVars>>
       ELSE IF ~AdapterKnown(s)
         THEN /\ res' = [res EXCEPT ![p] = NotFoundError(<<"System not found", s>>)]
              /\ pc' = [pc EXCEPT ![p] = "c_ret"]
              /\ ev' = <<>>
              /\ UNCHANGED <<contexts, ctxs, lctx, histVars>>
         ELSE \E built \in BOOLEAN :
                IF ~built
                  THEN /\ res' = [res EXCEPT ![p] = ConnectNewFailure]
                       /\ pc' = [pc EXCEPT ![p] = "c_ret"]
                       /\ ev' = <<>>
                       /\ UNCHANGED <<contexts, ctxs, lctx, histVars>>
                  ELSE /\ contexts' = [contexts EXCEPT ![pr] = id]
                       /\ lctx' = [lctx EXCEPT ![p] = id]
                       /\ ctxs' = Collect([ctxs EXCEPT ![pr][id] = NewConnectionContext(u, c, s)],
                                          contexts', lctx', op)
                       /\ res' = [res EXCEPT ![p] = ConnectionResult(StatusError, ActionNone, <<>>)]
                       /\ ev' = <<Event("new", ""), Event("connect", "")>>
                       /\ pc' = [pc EXCEPT ![p] = "c_adapter"]
                       /\ wasRemoved' = wasRemoved \ {pr}
  /\ UNCHANGED op

\* ConnectEnter that does not wait for the lock
ConnectEnterUnlocked(p) ==
  /\ pc[p] = "c_lock"
  /\ lock' = p
  /\ \E s \in SystemCodes : ConnectBody(p, s)

ConnectEnter(p) ==
  /\ pc[p] = "c_lock"
  /\ lock = 0
  /\ lock' = p
  /\ \E s \in SystemCodes : ConnectBody(p, s)

\* lines 167-196: ctx.Connect() returns; on an error Connect returns the
\* Error result, else it publishes the change message and maps the outcome
ConnectAdapterReturn(p) ==
  LET id == lctx[p]
      pr == <<op[p].user, op[p].code>>
  IN
  /\ pc[p] = "c_adapter"
  /\ \E out \in ConnectOutcomes :
       LET ctx == [ctxs[pr][id] EXCEPT !.status = StatusAfterConnect(out)] IN
       /\ ctxs' = [ctxs EXCEPT ![pr][id] = ctx]
       /\ IF out = "error"
            THEN /\ res' = [res EXCEPT ![p] = ConnectAdapterFailure]
                 /\ ev' = Append(ev, Event("connectfailed", ""))
            ELSE /\ \E sent \in BOOLEAN :
                      IF sent
                        THEN /\ ev' = ev \o <<Event("returned", out), ChangeMessage(ctx)>>
                             /\ res' = [res EXCEPT ![p] = MapOutcome(out, ctx.user, ctx.code, ctx.sys)]
                        ELSE /\ ev' = Append(ev, Event("pubfail", ""))
                             /\ res' = [res EXCEPT ![p] = ConnectPublishFailure]
  /\ pc' = [pc EXCEPT ![p] = "c_ret"]
  /\ UNCHANGED <<lock, users, contexts, op, lctx, pre, histVars>>


\* ------------------------------------------------------------ Disconnect
\* a thread calls Disconnect and reaches userConnections.Lock()
DisconnectCall(p) ==
  /\ pc[p] = "idle"
  /\ \E u \in Users, c \in Codes :
       op' = [op EXCEPT ![p] = [name |-> "Disconnect", user |-> u, behalf |-> u, code |-> c,
                                race |-> FALSE, pending |-> FALSE]]
  /\ pc' = [pc EXCEPT ![p] = "d_lock"]
  /\ UNCHANGED <<lock, users, contexts, ctxs, lctx, res, ev, pre, histVars>>

\* DisconnectNotFound that treats a missing context as nothing to do
DisconnectMissingIsNoOp(u, c) ==
  IF u \notin users
    THEN NotFoundError(<<"Connection not found for user", u>>)
    ELSE Success

\* lines 207-215: the error Disconnect returns when the user has no entry in
\* the outer map, or no context under the code
DisconnectNotFound(u, c) ==
  IF u \notin users
    THEN NotFoundError(<<"Connection not found for user", u>>)
    ELSE NotFoundError(<<"Connection not found", c>>)

\* DisconnectPublishFailure with the error dropped
DisconnectPublishSwallowed == Success

\* lines 222-224: what Disconnect returns when the publish fails
DisconnectPublishFailure == ServerError(<<"publish error">>)

\* NothingToDisconnect without the IsDisconnected check
NothingToDisconnectNever(st) == FALSE

\* line 217: Disconnect has nothing to do for this stored status
NothingToDisconnect(st) == IsDisconnected(st)

\* DeleteContext that empties every inner map
DeleteAllContexts(cm, pr) == [q \in Pairs |-> 0]

\* DeleteContext that leaves the key in the map
DeleteNothing(cm, pr) == cm

\* line 226: the inner map after delete(uc.contexts, connectionCode)
DeleteContext(cm, pr) == [cm EXCEPT ![pr] = 0]

\* DisconnectSteps that deletes the key before it publishes
DisconnectStepsRemoveFirst(ctx) ==
  <<Event("remove", ""), ChangeMessage(ctx), Event("disconnect", "")>>

\* lines 221-227, when the publish goes out: sendConnectionChangeMessage,
\* delete, then the call of ctx.Disconnect()
DisconnectSteps(ctx) ==
  <<ChangeMessage(ctx), Event("remove", ""), Event("disconnect", "")>>

\* lines 204-227: takes the lock, looks the context up, returns at once when
\* it is missing or Disconnected, else publishes the change message and, when
\* that went out, deletes the key and enters ctx.Disconnect()
DisconnectEnter(p) ==
  LET u  == op[p].user
      c  == op[p].code
      pr == <<u, c>>
      id == contexts[pr]
  IN
  /\ pc[p] = "d_lock"
  /\ lock = 0
  /\ lock' = p
  /\ pre' = Snapshot(pr, "")
  /\ IF u \notin users \/ id = 0
       THEN /\ res' = [res EXCEPT ![p] = DisconnectNotFound(u, c)]
            /\ pc' = [pc EXCEPT ![p] = "d_ret"]
            /\ ev' = <<>>
            /\ UNCHANGED <<contexts, lctx, histVars>>
       ELSE IF NothingToDisconnect(ctxs[pr][id].status)
         THEN /\ res' = [res EXCEPT ![p] = Success]
              /\ pc' = [pc EXCEPT ![p] = "d_ret"]
              /\ ev' = <<>>
              /\ UNCHANGED <<contexts, lctx, histVars>>
         ELSE \E sent \in BOOLEAN :
                IF ~sent
                  THEN /\ res' = [res EXCEPT ![p] = DisconnectPublishFailure]
                       /\ pc' = [pc EXCEPT ![p] = "d_ret"]
                       /\ ev' = <<Event("pubfail", "")>>
                       /\ UNCHANGED <<contexts, lctx, histVars>>
                  ELSE /\ contexts' = DeleteContext(contexts, pr)
                       /\ lctx' = [lctx EXCEPT ![p] = id]
                       /\ ev' = DisconnectSteps(ctxs[pr][id])
                       /\ pc' = [pc EXCEPT ![p] = "d_adapter"]
                       /\ wasRemoved' = wasRemoved \cup {pr}
                       /\ UNCHANGED res
  /\ UNCHANGED <<users, ctxs, op>>

\* lines 227-229: ctx.Disconnect() returns, its error is dropped
DisconnectAdapterReturn(p) ==
  LET id == lctx[p]
      pr == PairOf(op[p])
  IN
  /\ pc[p] = "d_adapter"
  /\ \E ok \in BOOLEAN :
       /\ ctxs' = [ctxs EXCEPT ![pr][id].status = StatusAfterDisconnect(@, ok)]
       /\ ev' = Append(ev, Event("disconnected", IF ok THEN "nil" ELSE "error"))
  /\ res' = [res EXCEPT ![p] = Success]
  /\ pc' = [pc EXCEPT ![p] = "d_ret"]
  /\ UNCHANGED <<lock, users, contexts, op, lctx, pre, histVars>>

\* --------------------------------------------------------------- queries
\* the lookup a query runs: TestAdapter has its own, the others share
\* getConnectionContext
LookupOf(n) == IF n = "TestAdapter" THEN "TestAdapter" ELSE "getConnectionContext"

\* QueryLookup that keeps the lock until the handler returns
QueryLookupLocked(p) ==
  /\ pc[p] = "idle"
  /\ lock = 0
  /\ \E n \in QueryOps \cup {"TestAdapter"}, u \in Users, b \in Users, c \in Codes :
       LET o  == [name |-> LookupOf(n), user |-> u, behalf |-> b, code |-> c, race |-> FALSE,
                  pending |-> FALSE]
           k  == LookupUser(o)
           id == contexts[<<k, c>>]
       IN
       /\ op' = [op EXCEPT ![p] = o]
       /\ IF k \notin users
            THEN /\ res' = [res EXCEPT ![p] = NotFoundError(<<"Connection not found for user", k>>)]
                 /\ pc' = [pc EXCEPT ![p] = "q_ret"]
                 /\ UNCHANGED lctx
            ELSE IF id = 0
              THEN /\ res' = [res EXCEPT ![p] = NotFoundError(<<"Connection not found", c>>)]
                   /\ pc' = [pc EXCEPT ![p] = "q_ret"]
                   /\ UNCHANGED lctx
              ELSE /\ lctx' = [lctx EXCEPT ![p] = id]
                   /\ pc' = [pc EXCEPT ![p] = "q_adapter"]
                   /\ UNCHANGED res
  /\ lock' = p
  /\ UNCHANGED <<users, contexts, ctxs, ev, pre, histVars>>

\* getConnectionContext, and the same lookup inlined in TestAdapter: under
\* the read lock, find the context; the lock is released before returning
QueryLookup(p) ==
  /\ pc[p] = "idle"
  /\ lock = 0
  /\ \E n \in QueryOps \cup {"TestAdapter"}, u \in Users, b \in Users, c \in Codes :
       LET o  == [name |-> LookupOf(n), user |-> u, behalf |-> b, code |-> c, race |-> FALSE,
                  pending |-> FALSE]
           k  == LookupUser(o)
           id == contexts[<<k, c>>]
       IN
       /\ op' = [op EXCEPT ![p] = o]
       /\ IF k \notin users
            THEN /\ res' = [res EXCEPT ![p] = NotFoundError(<<"Connection not found for user", k>>)]
                 /\ pc' = [pc EXCEPT ![p] = "q_ret"]
                 /\ UNCHANGED lctx
            ELSE IF id = 0
              THEN /\ res' = [res EXCEPT ![p] = NotFoundError(<<"Connection not found", c>>)]
                   /\ pc' = [pc EXCEPT ![p] = "q_ret"]
                   /\ UNCHANGED lctx
              ELSE /\ lctx' = [lctx EXCEPT ![p] = id]
                   /\ pc' = [pc EXCEPT ![p] = "q_adapter"]
                   /\ UNCHANGED res
  /\ UNCHANGED <<lock, users, contexts, ctxs, ev, pre, histVars>>

\* the delegated call on the context found, e.g. ctx.GetRootSymbols(filter),
\* returns: its result or error is returned as it is, and ctx goes out of
\* scope
QueryDelegate(p) ==
  /\ pc[p] = "q_adapter"
  /\ \E ok \in BOOLEAN :
       res' = [res EXCEPT ![p] = [err |-> IF ok THEN "nil" ELSE "adapter", status |-> "",
                                  action |-> "", message |-> <<>>, val |-> {}]]
  /\ pc' = [pc EXCEPT ![p] = "q_ret"]
  /\ lctx' = [lctx EXCEPT ![p] = 0]
  /\ ctxs' = Collect(ctxs, contexts, lctx', op)
  /\ UNCHANGED <<lock, users, contexts, op, ev, pre, histVars>>

\* ------------------------------------------------------------ snapshots
ConnectionInfo(ctx) == [user |-> ctx.user, code |-> ctx.code, sys |-> ctx.sys]

\* lines 54-68: one ConnectionInfo per context in the user's map
ListConnections(u) ==
  IF u \in users
    THEN { ConnectionInfo(ctxs[pr][contexts[pr]]) : pr \in { q \in Pairs : q[1] = u /\ contexts[q] # 0 } }
    ELSE {}

GetConnections(p) ==
  /\ pc[p] = "idle"
  /\ lock = 0
  /\ \E u \in Users :
       /\ op' = [op EXCEPT ![p] = [name |-> "GetConnections", user |-> u, behalf |-> u,
                                   code |-> "", race |-> FALSE, pending |-> FALSE]]
       /\ res' = [res EXCEPT ![p] = [Success EXCEPT !.val = ListConnections(u)]]
  /\ pc' = [pc EXCEPT ![p] = "g_ret"]
  /\ UNCHANGED <<lock, users, contexts, ctxs, lctx, ev, pre, histVars>>

\* lines 81-87: the stored contexts, of every user, whose adapter reports
\* NeedsRefresh(); which ones do is the adapter's policy
GetConnectionsToRefresh(p) ==
  /\ pc[p] = "idle"
  /\ lock = 0
  /\ \E due \in SUBSET { <<pr, contexts[pr]>> : pr \in { q \in Pairs : contexts[q] # 0 } } :
       res' = [res EXCEPT ![p] = [Success EXCEPT !.val = due]]
  /\ op' = [op EXCEPT ![p] = [NoOp EXCEPT !.name = "GetConnectionsToRefresh"]]
  /\ pc' = [pc EXCEPT ![p] = "r_ret"]
  /\ UNCHANGED <<lock, users, contexts, ctxs, lctx, ev, pre, histVars>>

\* ---------------------------------------------------------------- return
RetPcs == {"c_ret", "d_ret", "q_ret", "g_ret", "r_ret"}

\* the handler returns; the deferred Unlock of Connect and Disconnect runs
Return(p) ==
  /\ pc[p] \in RetPcs
  /\ pc' = [pc EXCEPT ![p] = "idle"]
  /\ op' = [op EXCEPT ![p] = NoOp]
  /\ res' = [res EXCEPT ![p] = NoRes]
  /\ lctx' = [lctx EXCEPT ![p] = 0]
  /\ ctxs' = Collect(ctxs, contexts, lctx', op')
  /\ IF lock = p
       THEN lock' = 0 /\ ev' = <<>> /\ pre' = NoPre
       ELSE UNCHANGED <<lock, ev, pre>>
  /\ UNCHANGED <<users, contexts, histVars>>

\* ---------------------------------------------------------------- adapter
\* the adapter changes the status of a stored context on its own (the
\* callback that ends a handshake, the end of a session)
AdapterStatusChange(pr) ==
  LET id  == contexts[pr] IN
  /\ id # 0
  /\ \E t \in AdapterTransitions :
       /\ t[1] = ctxs[pr][id].status
       /\ ctxs' = [ctxs EXCEPT ![pr][id].status = t[2]]
  /\ UNCHANGED <<lock, users, contexts, pc, op, lctx, res, ev, pre, histVars>>

\* ------------------------------------------------------------------ system
Init ==
  /\ lock = 0
  /\ users = {}
  /\ contexts = [pr \in Pairs |-> 0]
  /\ ctxs = [pr \in Pairs |-> [i \in CtxIds |-> FreeCtx]]
  /\ pc = [p \in Procs |-> "idle"]
  /\ op = [p \in Procs |-> NoOp]
  /\ lctx = [p \in Procs |-> 0]
  /\ res = [p \in Procs |-> NoRes]
  /\ ev = <<>>
  /\ pre = NoPre
  /\ wasRemoved = {}

\* the calls that change the registry, and the adapter's own steps
NextCD ==
  \/ \E p \in Procs : ConnectCall(p)
  \/ \E p \in Procs : ConnectEnter(p)
  \/ \E p \in Procs : ConnectAdapterReturn(p)
  \/ \E p \in Procs : DisconnectCall(p)
  \/ \E p \in Procs : DisconnectEnter(p)
  \/ \E p \in Procs : DisconnectAdapterReturn(p)
  \/ \E p \in Procs : Return(p)
  \/ \E pr \in Pairs : AdapterStatusChange(pr)

\* the calls that only read it
NextRead ==
  \/ \E p \in Procs : QueryLookup(p)
  \/ \E p \in Procs : QueryDelegate(p)
  \/ \E p \in Procs : GetConnections(p)
  \/ \E p \in Procs : GetConnectionsToRefresh(p)

Next == NextCD \/ NextRead

Spec == Init /\ [][Next]_vars

\* Connect, Disconnect and the adapter alone
SpecCD == Init /\ [][NextCD]_vars

\* Connect and Disconnect with the retries of a pending Connect marked
NextRetry ==
  \/ NextCD
  \/ \E p \in Procs : ConnectRetry(p)

SpecRetry == Init /\ [][NextRetry]_vars

\* the threads that serve the listing calls and those that serve the queries;
\* every thread serves Connect and Disconnect
Listers  == {1}
Queriers == Procs \ {1}

\* the reading calls against Connect and Disconnect
NextRW ==
  \/ \E p \in Procs : ConnectCall(p)
  \/ \E p \in Procs : ConnectEnter(p)
  \/ \E p \in Procs : ConnectAdapterReturn(p)
  \/ \E p \in Procs : DisconnectCall(p)
  \/ \E p \in Procs : DisconnectEnter(p)
  \/ \E p \in Procs : DisconnectAdapterReturn(p)
  \/ \E p \in Procs : Return(p)
  \/ \E p \in Listers : GetConnections(p)
  \/ \E p \in Listers : GetConnectionsToRefresh(p)
  \/ \E p \in Queriers : QueryLookup(p)
  \/ \E p \in Queriers : QueryDelegate(p)

SpecRW == Init /\ [][NextRW]_vars

TypeOK ==
  /\ lock \in 0..NProcs
  /\ users \subseteq Users
  /\ contexts \in [Pairs -> CtxIds \cup {0}]
  /\ \A pr \in Pairs : contexts[pr] # 0 => ctxs[pr][contexts[pr]] # FreeCtx

\* ===================================================================
\* Properties.  pre and ev describe the call of the thread that holds the
\* write lock: at "c_ret" and "d_ret" that thread is about to return res.
\* ===================================================================
ThePair(p) == PairOf(op[p])

InConnect(p) == pc[p] \in {"c_adapter", "c_ret"}

AlreadyConnected == ConnectionResult(Connected, Unset, <<"Already connected">>)
StillConnecting  == ConnectionResult(Connecting, Unset, <<"Still connecting">>)

\* the call found its system code in the catalog and its context was built
Valid(p) == pre.sys \in Adapters /\ res[p] # ConnectionResult(StatusError, Unset, <<"context error">>)

\* the registry as the lock holder found it
RegistryUntouched == contexts = pre.contexts /\ users = pre.users

\* the status carried by the first event e of the lock holder's call
EvSt(e) == ev[CHOOSE i \in 1..Len(ev) : ev[i].e = e /\ \A j \in 1..(i - 1) : ev[j].e # e].st

\* how many events e the lock holder's call has produced
Count(e) == Cardinality({i \in 1..Len(ev) : ev[i].e = e})

\* position of the first event e in ev, 0 when there is none
Pos(e) == IF Has(e) THEN CHOOSE i \in 1..Len(ev) : ev[i].e = e /\ \A j \in 1..(i - 1) : ev[j].e # e
                    ELSE 0

\* C1 as stated: of the Connect calls issued for a pair while it had no
\* entry, the only one that invokes the adapter's connect is the one that
\* finds the pair still absent; every other one returns a result with status
\* Connecting or Connected, whatever the first call's adapter returned.
C1_ExactlyOneInvocation ==
  \A p \in Procs :
    (pc[p] = "c_ret" /\ op[p].race /\ Valid(p)) =>
      \/ Has("connect") /\ pre.st = "absent"
      \/ ~Has("connect") /\ res[p].err = "nil" /\ res[p].status \in {Connecting, Connected}

\* C1 amended: the write lock serialises the racing calls (at most one thread
\* is inside the adapter's connect), the call that finds the pair absent
\* invokes the adapter, a call that finds the entry Connecting or Connected
\* returns that status without invoking it, and a call invokes it only when
\* it finds no live entry (absent, or left in Error by a failed connect).
C1_SerializedConnect ==
  /\ Cardinality({p \in Procs : pc[p] = "c_adapter"}) <= 1
  /\ \A p \in Procs :
       (InConnect(p) /\ op[p].race) =>
         /\ lock = p
         /\ IsLive(pre.st) => (~Has("connect") /\ res[p] \in {AlreadyConnected, StillConnecting})
         /\ Has("connect") => ~IsLive(pre.st)
         /\ (pre.st = "absent" /\ Valid(p)) => Has("connect")

\* a second racing call that found the first call's entry live
C1_Witness ==
  \E p \in Procs : pc[p] = "c_ret" /\ op[p].race /\ pre.st = Connecting /\ res[p] = StillConnecting

\* C2: a Connect that finds the stored context Connected returns (Connected,
\* "Already connected", nil), one that finds it Connecting returns
\* (Connecting, "Still connecting", nil); neither invokes the adapter,
\* publishes, or changes the registry, whatever system code was asked for.
C2_IdempotentReentry ==
  \A p \in Procs :
    (InConnect(p) /\ IsLive(pre.st)) =>
      /\ pc[p] = "c_ret"
      /\ pre.st = Connected => res[p] = AlreadyConnected
      /\ pre.st = Connecting => res[p] = StillConnecting
      /\ res[p].err = "nil"
      /\ ev = <<>>
      /\ RegistryUntouched
      /\ contexts[ThePair(p)] # 0

\* a re-entry that asked for a system code the catalog does not hold
C2_Witness ==
  \E p \in Procs : pc[p] = "c_ret" /\ pre.st = Connected /\ pre.sys = "nosys"
                    /\ res[p] = AlreadyConnected

\* C3: when the publish fails in Disconnect, Disconnect returns a
\* Server-Error, the entry is still in the registry with the same context,
\* and the adapter's disconnect has not been invoked.
C3_DisconnectPublishFailure ==
  \A p \in Procs :
    (pc[p] = "d_ret" /\ Has("pubfail")) =>
      /\ res[p].err = "ServerError"
      /\ RegistryUntouched
      /\ contexts[ThePair(p)] # 0
      /\ StatusOf(contexts, ctxs, ThePair(p)) # "free"
      /\ ~Has("remove")
      /\ ~Has("disconnect")

C3_Witness ==
  \E p \in Procs : pc[p] = "d_ret" /\ Has("pubfail") /\ pre.st = Connected

\* C4 as stated: when the adapter's connect succeeds and the publish fails,
\* Connect returns a Server-Error, and the context stays stored.
C4_ConnectPublishFailure ==
  \A p \in Procs :
    (pc[p] = "c_ret" /\ Has("pubfail")) =>
      /\ res[p].err = "ServerError"
      /\ contexts[ThePair(p)] # 0

\* C5 as stated: Disconnect on a pair with no entry, or with a Disconnected
\* entry, returns success without invoking the adapter or publishing.
C5_IdempotentDisconnect ==
  \A p \in Procs :
    (pc[p] = "d_ret" /\ pre.st \in {"absent", Disconnected}) =>
      /\ res[p].err = "nil"
      /\ ev = <<>>

\* C5 amended: Disconnect on a Disconnected entry returns success, and
\* Disconnect on a pair with no entry (a second Disconnect right after a
\* successful one included) returns a Not-Found error; in both cases without
\* invoking the adapter's disconnect, publishing or changing the registry.
C5_DisconnectNoOp ==
  \A p \in Procs :
    (pc[p] \in {"d_adapter", "d_ret"} /\ pre.st \in {"absent", Disconnected}) =>
      /\ pc[p] = "d_ret"
      /\ pre.st = Disconnected => res[p] = Success
      /\ pre.st = "absent" => res[p].err = "NotFound"
      /\ ev = <<>>
      /\ RegistryUntouched

\* the second Disconnect after a successful one
C5_Witness ==
  \E p \in Procs : pc[p] = "d_ret" /\ pre.removed /\ pre.st = "absent" /\ res[p].err = "NotFound"

\* C6: Disconnect returns a Not-Found error when the user has no entry in the
\* outer map or no context under the code; then the registry is unchanged,
\* nothing is published and the adapter's disconnect is not invoked.
C6_DisconnectNotFound ==
  \A p \in Procs :
    (pc[p] \in {"d_adapter", "d_ret"}
       /\ (op[p].user \notin pre.users \/ pre.contexts[ThePair(p)] = 0)) =>
      /\ pc[p] = "d_ret"
      /\ res[p].err = "NotFound"
      /\ res[p].message = IF op[p].user \notin pre.users
                            THEN <<"Connection not found for user", op[p].user>>
                            ELSE <<"Connection not found", op[p].code>>
      /\ RegistryUntouched
      /\ ev = <<>>

\* the user has an entry in the outer map, but no context under the code
C6_Witness ==
  \E p \in Procs : pc[p] = "d_ret" /\ op[p].user \in pre.users /\ pre.st = "absent"
                    /\ ~pre.removed /\ res[p].err = "NotFound"

\* C7: a Disconnect of a Connected, Connecting or Error entry that returns
\* success leaves the pair absent, whether the adapter's disconnect failed
\* or not; the pair stays absent until a Connect, and that Connect does not
\* short-circuit: it stores a new context and invokes the adapter.
C7_RemovalInvariant ==
  /\ \A p \in Procs :
       (pc[p] = "d_ret" /\ res[p].err = "nil" /\ pre.st \in {Connected, Connecting, StatusError}) =>
         /\ contexts[ThePair(p)] = 0
         /\ Has("remove")
         /\ Has("disconnected")
  /\ \A p \in Procs :
       (pc[p] = "d_ret" /\ Has("disconnected")) => res[p] = Success
  /\ \A pr \in wasRemoved : contexts[pr] = 0
  /\ \A p \in Procs :
       (InConnect(p) /\ pre.removed) =>
         /\ pre.st = "absent"
         /\ res[p] \notin {AlreadyConnected, StillConnecting}
         /\ Valid(p) => /\ Has("new")
                        /\ Has("connect")
                        /\ contexts[ThePair(p)] # 0
                        /\ ctxs[ThePair(p)][contexts[ThePair(p)]].sys = pre.sys

\* a Connect that follows a Disconnect of its pair and went to the adapter
C7_Witness ==
  \E p \in Procs : pc[p] = "c_ret" /\ pre.removed /\ Has("connect") /\ res[p].status = Connected

\* C8: a Connect that finds the stored context in Error (or Disconnected)
\* does not short-circuit: it stores a newly built context bound to the
\* adapter of the requested system code, and invokes the adapter's connect.
C8_OverwriteSemantics ==
  \A p \in Procs :
    (InConnect(p) /\ pre.st \in {StatusError, Disconnected}) =>
      /\ res[p] \notin {AlreadyConnected, StillConnecting}
      /\ Valid(p) => /\ Has("new")
                     /\ Has("connect")
                     /\ contexts[ThePair(p)] # 0
                     /\ ctxs[ThePair(p)][contexts[ThePair(p)]].sys = pre.sys
                     /\ pc[p] = "c_adapter" =>
                          ctxs[ThePair(p)][contexts[ThePair(p)]].status = Disconnected

\* an entry in Error replaced by a context that then connected
C8_Witness ==
  \E p \in Procs : pc[p] = "c_ret" /\ pre.st = StatusError /\ Has("new") /\ Has("connect")
                    /\ res[p].status = Connected

\* C9: when the adapter's connect returns an error, Connect returns a result
\* with status Error and the error's message, and a nil error, and publishes
\* nothing.
C9_RoutineConnectFailure ==
  \A p \in Procs :
    (pc[p] = "c_ret" /\ Has("connectfailed")) =>
      /\ res[p].err = "nil"
      /\ res[p].status = StatusError
      /\ res[p].message = <<"connect error">>
      /\ ~Has("publish")
      /\ ~Has("pubfail")

C9_Witness ==
  \E p \in Procs : pc[p] = "c_ret" /\ Has("connectfailed") /\ pre.st = "absent"

\* C10: a Connect that finds no live entry and asks for a system code the
\* catalog does not hold returns a Not-Found error naming the code, invokes
\* no adapter connect, publishes nothing, and leaves every context of the
\* registry as it was.
C10_UnknownSystem ==
  \A p \in Procs :
    (InConnect(p) /\ ~IsLive(pre.st) /\ pre.sys \notin Adapters) =>
      /\ pc[p] = "c_ret"
      /\ res[p].err = "NotFound"
      /\ res[p].message = <<"System not found", pre.sys>>
      /\ ev = <<>>
      /\ contexts = pre.contexts
      /\ StatusOf(contexts, ctxs, ThePair(p)) = pre.st

\* an unknown system code asked for a pair whose entry is in Error
C10_Witness ==
  \E p \in Procs : pc[p] = "c_ret" /\ pre.st = StatusError /\ pre.sys = "nosys"
                    /\ res[p].err = "NotFound"

\* C11: a Connect that found no live entry, whose adapter connect succeeded
\* and whose publish went out, returns (Connected, None) for the outcome
\* Connected, (Connecting, OpenUrl, the adapter's authorization URL) for
\* OpenUrlRequired and (Connecting, OpenUrl, the login URL synthesized from
\* user and code) for ProxyLoginRequired; the pair's entry is the context the
\* call built, and the call published exactly one notification, carrying the
\* status the adapter's connect left in that context.
C11_OutcomeMapping ==
  \A p \in Procs :
    (pc[p] = "c_ret" /\ Has("returned") /\ Has("publish")) =>
      LET out == EvSt("returned") IN
      /\ ~IsLive(pre.st)
      /\ out \in {"Connected", "OpenUrl", "ProxyUrl"}
      /\ res[p].err = "nil"
      /\ out = "Connected" =>
           /\ res[p].status = Connected
           /\ res[p].action = ActionNone
           /\ res[p].message = <<>>
      /\ out = "OpenUrl" =>
           /\ res[p].status = Connecting
           /\ res[p].action = ActionOpenUrl
           /\ res[p].message = <<"authurl", pre.sys>>
      /\ out = "ProxyUrl" =>
           /\ res[p].status = Connecting
           /\ res[p].action = ActionOpenUrl
           /\ res[p].message = <<"https://tradalia-server:8449/api/system/v1/weblogin/",
                                 op[p].user, "/", op[p].code, "/login">>
      /\ contexts[ThePair(p)] # 0
      /\ contexts[ThePair(p)] = lctx[p]
      /\ Count("publish") = 1
      /\ EvSt("publish") = (IF out = "Connected" THEN Connected ELSE Connecting)
      /\ EvSt("publish") = res[p].status

\* a proxy login answered with the synthesized URL, over an entry in Error
C11_Witness ==
  \E p \in Procs : /\ pc[p] = "c_ret" /\ Has("publish") /\ EvSt("returned") = "ProxyUrl"
                    /\ pre.st = StatusError /\ res[p].action = ActionOpenUrl

\* C12 as stated: a Connect issued while an earlier Connect of the same pair
\* is inside the adapter's connect returns (Connecting, "Still connecting")
\* and does not invoke the adapter's connect.
C12_RetryDuringPending ==
  \A p \in Procs :
    (InConnect(p) /\ op[p].pending) =>
      /\ pc[p] = "c_ret"
      /\ res[p] = StillConnecting
      /\ ~Has("connect")

\* C13 as stated: while a thread is inside the adapter's connect the registry
\* lock is free, so that any other user's registry operation can take it.
C13_LockFreeDuringConnect ==
  \A p \in Procs : pc[p] = "c_adapter" => lock = 0

\* C14: in a Disconnect the change message is published before the key is
\* deleted and before the adapter's disconnect is called: a deletion or an
\* adapter disconnect is always preceded by the publish, a Disconnect of a
\* Connected, Connecting or Error entry whose publish went out does all three
\* in that order, and one whose publish failed does neither of the other two.
C14_DisconnectOrdering ==
  \A p \in Procs :
    pc[p] \in {"d_adapter", "d_ret"} =>
      /\ Has("remove") => (0 < Pos("publish") /\ Pos("publish") < Pos("remove"))
      /\ Has("disconnect") => (0 < Pos("publish") /\ Pos("publish") < Pos("disconnect"))
      /\ Has("disconnected") => (0 < Pos("publish") /\ Pos("publish") < Pos("disconnected"))
      /\ (pre.contexts[ThePair(p)] # 0 /\ contexts[ThePair(p)] = 0) => Has("publish")
      /\ (pre.st \in {Connected, Connecting, StatusError} /\ ~Has("pubfail")) =>
           /\ Pos("publish") = 1
           /\ Pos("remove") = 2
           /\ Pos("disconnect") = 3
      /\ Has("pubfail") => (~Has("remove") /\ ~Has("disconnect"))

\* a Disconnect of a Connecting entry that is inside the adapter's disconnect
C14_Witness ==
  \E p \in Procs : /\ pc[p] = "d_adapter" /\ pre.st = Connecting
                    /\ Has("publish") /\ contexts[ThePair(p)] = 0

LookupStep(p) == pc[p] = "idle" /\ pc'[p] \in {"q_adapter", "q_ret"}

\* thread p's delegated query returns in this step
DelegateStep(p) == pc[p] = "q_adapter" /\ pc'[p] = "q_ret"

\* the contexts stored in the registry are the same objects, unchanged
StoredUnchanged ==
  /\ users' = users
  /\ contexts' = contexts
  /\ \A pr \in Pairs : contexts[pr] # 0 => ctxs'[pr][contexts[pr]] = ctxs[pr][contexts[pr]]

\* C15: the lookup of GetRootSymbols, GetRootSymbol, GetInstruments,
\* GetPriceBars and GetAccounts reads the map of the session's on-behalf-of
\* identity, the lookup of TestAdapter reads the map of the acting username;
\* it returns a Not-Found error exactly when that identity has no user entry
\* or no context under the code, and otherwise hands that context to the
\* delegated call.  Neither the lookup nor the delegated call changes the
\* registry, publishes, or takes the lock with it.
C15_QueryDispatch ==
  [][\A p \in Procs :
       /\ LookupStep(p) =>
            LET o     == op'[p]
                k     == IF o.name = "TestAdapter" THEN o.user ELSE o.behalf
                found == k \in users /\ contexts[<<k, o.code>>] # 0
            IN
            /\ o.name \in {"TestAdapter", "getConnectionContext"}
            /\ StoredUnchanged
            /\ ev' = ev
            /\ lock' = lock
            /\ found => /\ pc'[p] = "q_adapter"
                        /\ lctx'[p] = contexts[<<k, o.code>>]
                        /\ ctxs[<<k, o.code>>][lctx'[p]].user = k
            /\ ~found => /\ pc'[p] = "q_ret"
                         /\ res'[p].err = "NotFound"
                         /\ res'[p].message = IF k \notin users
                                                THEN <<"Connection not found for user", k>>
                                                ELSE <<"Connection not found", o.code>>
       /\ DelegateStep(p) =>
            /\ StoredUnchanged
            /\ ev' = ev
            /\ lock' = lock
            /\ res'[p].err \in {"nil", "adapter"}
    ]_vars

\* a delegated query of a caller who has a context of their own, on behalf of
\* an identity that has no user entry
C15_Witness ==
  \E p \in Procs : /\ pc[p] = "q_ret" /\ op[p].name = "getConnectionContext"
                    /\ op[p].user # op[p].behalf
                    /\ op[p].behalf \notin users
                    /\ contexts[<<op[p].user, op[p].code>>] # 0
                    /\ res[p].err = "NotFound"

\* C16 as stated: GetConnections returns one element per context of the
\* acting username that is Connected or Connecting, and no element for a
\* context in Error or Disconnected status.
C16_ListsLiveOnly ==
  [][\A p \in Procs :
       (pc[p] = "idle" /\ pc'[p] = "g_ret") =>
         res'[p].val =
           { ConnectionInfo(ctxs[pr][contexts[pr]]) :
               pr \in { q \in Pairs : /\ q[1] = op'[p].user
                                       /\ contexts[q] # 0
                                       /\ IsLive(StatusOf(contexts, ctxs, q)) } }
    ]_vars

\* thread p's Disconnect deletes its key in this step
RemovalStep(p, pr) ==
  /\ pc[p] = "d_lock"
  /\ pc'[p] = "d_adapter"
  /\ op[p].name = "Disconnect"
  /\ <<op[p].user, op[p].code>> = pr

\* C17: the registry holds at most one context per (username, code), stored
\* under the key it was built for; a key leaves the registry only in the step
\* of a Disconnect of that very pair, and that Disconnect returns success; no
\* other step of any call removes a key, and no user entry ever leaves the
\* outer map.
C17_EntryLifetime ==
  /\ [](\A pr \in Pairs :
          contexts[pr] # 0 =>
            /\ pr[1] \in users
            /\ ctxs[pr][contexts[pr]].user = pr[1]
            /\ ctxs[pr][contexts[pr]].code = pr[2])
  /\ [](\A p \in Procs :
          (pc[p] \in {"d_adapter", "d_ret"} /\ Has("remove")) =>
            /\ contexts[ThePair(p)] = 0
            /\ pc[p] = "d_ret" => res[p] = Success)
  /\ [][/\ users \subseteq users'
        /\ \A pr \in Pairs :
             (contexts[pr] # 0 /\ contexts'[pr] = 0) =>
               /\ \E p \in Procs : RemovalStep(p, pr)
               /\ \A q \in Pairs \ {pr} : contexts'[q] = contexts[q]
        /\ \A p \in Procs :
             (pc[p] = "d_adapter" /\ pc'[p] # "d_adapter") =>
               (pc'[p] = "d_ret" /\ res'[p] = Success)
       ]_vars

\* a Disconnect that has removed its key and returns success, while the
\* other user's context stays stored
C17_Witness ==
  \E p \in Procs : /\ pc[p] = "d_ret" /\ res[p] = Success /\ Has("remove")
                    /\ contexts[ThePair(p)] = 0
                    /\ ThePair(p)[1] \in users
                    /\ \E q \in Pairs \ {ThePair(p)} : contexts[q] # 0

\* thread p reads the registry in this step
ReadStep(p) == pc[p] = "idle" /\ pc'[p] \in {"q_adapter", "q_ret", "g_ret", "r_ret"}

\* thread p is between the Lock() of its Connect or Disconnect and its return
InWrite(p) == pc[p] \in {"c_adapter", "c_ret", "d_adapter", "d_ret"}

\* C18: a thread inside Connect or Disconnect, the adapter's connect or
\* disconnect and the publish included, holds the write lock, from the step
\* that enters the call to the step that returns; so at most one thread is
\* inside Connect or Disconnect, and no GetConnections, refresh scan or query
\* lookup runs while a thread is inside one, in particular not while an
\* adapter connect is in progress.
C18_WriteLockHeld ==
  /\ [](\A p \in Procs : InWrite(p) <=> lock = p)
  /\ [](Cardinality({p \in Procs : InWrite(p)}) <= 1)
  /\ [][\A p \in Procs :
          /\ (lock # p /\ lock' = p) => (lock = 0 /\ pc[p] \in {"c_lock", "d_lock"})
          /\ (lock = p /\ lock' # p) => (pc[p] \in {"c_ret", "d_ret"} /\ pc'[p] = "idle" /\ lock' = 0)
          /\ ReadStep(p) => (lock = 0 /\ \A q \in Procs : ~InWrite(q))
       ]_vars

\* a Connect inside the adapter's connect, and a call of another user
\* waiting for the lock
C18_Witness ==
  \E p, q \in Procs : /\ pc[p] = "c_adapter" /\ lock = p
                       /\ pc[q] \in {"c_lock", "d_lock"}
                       /\ op[q].user # op[p].user

\* the context thread p's query is delegated to is not the one stored for its
\* pair
Stale(p) == pc[p] = "q_adapter" /\ contexts[ThePair(p)] # lctx[p]

\* C19: a query holds no lock between its lookup and the return of the
\* delegated call, so Connect and Disconnect run in between; the context the
\* call is delegated to is one that was stored for the pair looked up, but it
\* need not be the one stored now: when it is not, the key was deleted by a
\* Disconnect or the context was replaced by a Connect.
C19_QueryOutsideLock ==
  \A p \in Procs :
    /\ pc[p] \in {"q_adapter", "q_ret"} => lock # p
    /\ pc[p] = "q_adapter" =>
         /\ lctx[p] # 0
         /\ ctxs[ThePair(p)][lctx[p]] # FreeCtx
         /\ ctxs[ThePair(p)][lctx[p]].user = LookupUser(op[p])
         /\ ctxs[ThePair(p)][lctx[p]].code = op[p].code
    /\ Stale(p) =>
         \/ contexts[ThePair(p)] = 0 /\ ThePair(p) \in wasRemoved
         \/ contexts[ThePair(p)] # 0 /\ ctxs[ThePair(p)][contexts[ThePair(p)]] # FreeCtx

\* a query about to run on a context that a Disconnect, which has returned,
\* removed from the registry and disconnected
C19_Witness ==
  \E p \in Procs : /\ Stale(p)
                    /\ contexts[ThePair(p)] = 0
                    /\ ctxs[ThePair(p)][lctx[p]].status = Disconnected
                    /\ lock = 0
                    /\ \A q \in Procs \ {p} : pc[q] = "idle"

====
